---- MODULE Spec2Model ----
(***************************************************************************)
(* State-machine model of the StepLog diary application: the todo          *)
(* ordering model (routers/todos.py), the backup and restore procedures    *)
(* (routers/backup.py, routers/restore_router.py) and the tables they act  *)
(* on (models.py).                                                         *)
(*                                                                         *)
(* Conventions                                                             *)
(*   - a table is a function from primary key to row;                      *)
(*   - a "YYYY-MM-DD" string is modelled by its day number, the empty      *)
(*     string by 0: the code only compares these strings, and ISO dates    *)
(*     compare as their days do;                                           *)
(*   - Python's None is the value None below.                              *)
(***************************************************************************)
EXTENDS Integers, Sequences, FiniteSets, TLC

VARIABLES
    diaries,    \* diaries table: id -> [title, created_at]
    schedules,  \* schedules table: id -> [date, title, time_str]
    todos,      \* todos table: id -> [date, title, status, order]
    minted,     \* number of uuid4 tokens create_todo has drawn so far
    today,      \* the clock of the host (date.today(), datetime.now(), now())
    files,      \* regular files of the host: absolute path -> content
    dirs,       \* directories of the host, the root excepted
    sess,       \* the open sessions of requests that run concurrently
    last        \* the request handled last and its outcome

vars == <<diaries, schedules, todos, minted, today, files, dirs, sess, last>>

notTodos == <<diaries, schedules, today, files, dirs, sess>>

(***************************************************************************)
(* Bounds of the model.                                                    *)
(***************************************************************************)
MaxTodos == 3

MaxOrderLen == 2

MaxDay == 2

MaxRecs == 2

MaxUploads == 2
MaxHistory == 26
MaxPageAsked == 3

(***************************************************************************)
(* Program constants.                                                      *)
(***************************************************************************)
SENTINEL_ORDER == 10000000

None == -1
HISTORY_ITEMS_PER_PAGE == 20
BadDate == -2
\* The empty string in a date column: it compares below every date and
\* date.fromisoformat refuses it, as it refuses the text BadDate stands for.
EmptyDate == -3

Titles == {"x", "y"}

TodoIds == 1 .. MaxTodos

Statuses == {"pending", "done", "giveup"}

EmptyTable == [k \in {} |-> None]

(***************************************************************************)
(* Generic helpers.                                                        *)
(***************************************************************************)
SeqsUpTo(S, n) == UNION {[1 .. k -> S] : k \in 0 .. n}

Range(s) == {s[i] : i \in DOMAIN s}

DupFree(s) == \A i, j \in DOMAIN s : s[i] = s[j] => i = j

MaxOf(S) == CHOOSE m \in S : \A x \in S : x <= m

Insert(table, k, row) == [x \in DOMAIN table \cup {k} |-> IF x = k THEN row ELSE table[x]]

Remove(table, k) == [x \in DOMAIN table \ {k} |-> table[x]]

(***************************************************************************)
(* routers/todos.py                                                        *)
(***************************************************************************)
PendingIds(t) == {i \in DOMAIN t : t[i].status = "pending"}

\* db.query(func.max(Todo.order)).filter(status == "pending").scalar():
\* None when no pending row exists.
MaxPendingOrder(t) ==
    IF PendingIds(t) = {} THEN None ELSE MaxOf({t[i].order : i \in PendingIds(t)})

\* A variant that ranks a new todo by the number of pending rows instead of
\* their greatest rank.
NextOrderByCount(t) == Cardinality(PendingIds(t)) + 1

\* A variant that takes the greatest rank of all rows, finished ones included.
NextOrderFromAll(t) ==
    IF DOMAIN t = {} THEN 1 ELSE MaxOf({t[i].order : i \in DOMAIN t}) + 1

\* (max_order or 0) + 1: Python's `or` also replaces a maximum of 0 by 0.
NextOrder(t) ==
    LET m == MaxPendingOrder(t) IN (IF m = None \/ m = 0 THEN 0 ELSE m) + 1

create_todo(title) ==
    /\ minted < MaxTodos
    /\ LET id == minted + 1 IN
         todos' = Insert(todos, id,
                    [date |-> today, title |-> title, status |-> "pending",
                     order |-> NextOrder(todos)])
    /\ minted' = minted + 1
    /\ last' = [op |-> "create_todo", status |-> 303]
    /\ UNCHANGED notTodos

\* {tid: idx for idx, tid in enumerate(order)}: a later position of the same id
\* replaces an earlier one; enumerate counts from 0.
OrderMap(order) ==
    [tid \in Range(order) |-> MaxOf({i \in DOMAIN order : order[i] = tid}) - 1]

\* A variant that gives an id missing from the list rank 0 instead of the
\* sentinel.
NewOrderDefaultZero(order, id) ==
    IF id \in Range(order) THEN OrderMap(order)[id] ELSE 0

\* order_map.get(item.id, 10_000_000)
NewOrder(order, id) ==
    IF id \in Range(order) THEN OrderMap(order)[id] ELSE SENTINEL_ORDER

\* The ids of the list in the order of the positions order_map keeps for
\* them: an id named twice stands where it is named last.
RECURSIVE KeepLast(_)
KeepLast(order) ==
    IF order = <<>> THEN <<>>
    ELSE IF Head(order) \in Range(Tail(order)) THEN KeepLast(Tail(order))
         ELSE <<Head(order)>> \o KeepLast(Tail(order))

\* The pending todos a list names, in the list's order.
ListedPending(order, t) == SelectSeq(KeepLast(order), LAMBDA x : x \in PendingIds(t))

\* A variant that ranks every todo the list names, finished ones included.
reorder_todosAnyStatus(order) ==
    /\ todos' = [i \in DOMAIN todos |->
                   IF todos[i].status = "pending" \/ i \in Range(order)
                   THEN [todos[i] EXCEPT !.order = NewOrder(order, i)]
                   ELSE todos[i]]
    /\ last' = [op |-> "reorder_todos", status |-> 200,
                listed |-> ListedPending(order, todos),
                omitted |-> Cardinality(PendingIds(todos) \ Range(order))]
    /\ UNCHANGED <<minted, notTodos>>

reorder_todos(order) ==
    /\ todos' = [i \in DOMAIN todos |->
                   IF todos[i].status = "pending"
                   THEN [todos[i] EXCEPT !.order = NewOrder(order, i)]
                   ELSE todos[i]]
    /\ last' = [op |-> "reorder_todos", status |-> 200,
                listed |-> ListedPending(order, todos),
                omitted |-> Cardinality(PendingIds(todos) \ Range(order))]
    /\ UNCHANGED <<minted, notTodos>>

\* A variant that also moves the finished todo to a rank of its own.
mark_todo_doneRankBumped(id) ==
    /\ IF id \in DOMAIN todos
       THEN /\ todos' = [todos EXCEPT ![id].status = "done", ![id].order = 100000]
            /\ last' = [op |-> "mark_todo_done", status |-> 303,
                        again |-> todos[id].status = "done"]
       ELSE /\ todos' = todos
            /\ last' = [op |-> "mark_todo_done", status |-> 404, again |-> FALSE]
    /\ UNCHANGED <<minted, notTodos>>

\* A variant that refuses a todo that is done already.
mark_todo_doneOnce(id) ==
    /\ IF id \in DOMAIN todos /\ todos[id].status # "done"
       THEN /\ todos' = [todos EXCEPT ![id].status = "done"]
            /\ last' = [op |-> "mark_todo_done", status |-> 303, again |-> FALSE]
       ELSE /\ todos' = todos
            /\ last' = [op |-> "mark_todo_done", status |-> 404,
                        again |-> id \in DOMAIN todos]
    /\ UNCHANGED <<minted, notTodos>>

\* The response's record keeps whether the todo had the status already.
mark_todo_done(id) ==
    /\ IF id \in DOMAIN todos
       THEN /\ todos' = [todos EXCEPT ![id].status = "done"]
            /\ last' = [op |-> "mark_todo_done", status |-> 303,
                        again |-> todos[id].status = "done"]
       ELSE /\ todos' = todos
            /\ last' = [op |-> "mark_todo_done", status |-> 404, again |-> FALSE]
    /\ UNCHANGED <<minted, notTodos>>

mark_todo_giveup(id) ==
    /\ IF id \in DOMAIN todos
       THEN /\ todos' = [todos EXCEPT ![id].status = "giveup"]
            /\ last' = [op |-> "mark_todo_giveup", status |-> 303,
                        again |-> todos[id].status = "giveup"]
       ELSE /\ todos' = todos
            /\ last' = [op |-> "mark_todo_giveup", status |-> 404, again |-> FALSE]
    /\ UNCHANGED <<minted, notTodos>>

\* A variant that puts the todo back on the pending list when it is edited.
update_todoReopens(id, title) ==
    /\ IF id \in DOMAIN todos
       THEN /\ todos' = [todos EXCEPT ![id].title = title, ![id].status = "pending"]
            /\ last' = [op |-> "update_todo", status |-> 303]
       ELSE /\ todos' = todos
            /\ last' = [op |-> "update_todo", status |-> 404]
    /\ UNCHANGED <<minted, notTodos>>

update_todo(id, title) ==
    /\ IF id \in DOMAIN todos
       THEN /\ todos' = [todos EXCEPT ![id].title = title]
            /\ last' = [op |-> "update_todo", status |-> 303]
       ELSE /\ todos' = todos
            /\ last' = [op |-> "update_todo", status |-> 404]
    /\ UNCHANGED <<minted, notTodos>>

\* A variant that keeps a finished todo and answers as if it had deleted it.
delete_todoPendingOnly(id) ==
    /\ IF id \in DOMAIN todos
       THEN /\ todos' = IF todos[id].status = "pending" THEN Remove(todos, id) ELSE todos
            /\ last' = [op |-> "delete_todo", status |-> 303, was |-> todos[id].status]
       ELSE /\ todos' = todos
            /\ last' = [op |-> "delete_todo", status |-> 404, was |-> "absent"]
    /\ UNCHANGED <<minted, notTodos>>

\* The response's record keeps the status the deleted row had.
delete_todo(id) ==
    /\ IF id \in DOMAIN todos
       THEN /\ todos' = Remove(todos, id)
            /\ last' = [op |-> "delete_todo", status |-> 303, was |-> todos[id].status]
       ELSE /\ todos' = todos
            /\ last' = [op |-> "delete_todo", status |-> 404, was |-> "absent"]
    /\ UNCHANGED <<minted, notTodos>>

\* The clock of the host: date.today() moves on between requests.
AdvanceDay ==
    /\ today < MaxDay
    /\ today' = today + 1
    /\ last' = [op |-> "tick", status |-> 0]
    /\ UNCHANGED <<diaries, schedules, todos, minted, files, dirs, sess>>

\* The pending list of the /todos page: ORDER BY order ASC, date ASC.  Rows the
\* two keys do not separate come in whatever order the store returns them, so
\* the page is any one of these sequences.
PendingKeyLeq(t, a, b) ==
    \/ t[a].order < t[b].order
    \/ t[a].order = t[b].order /\ t[a].date <= t[b].date

RECURSIVE SortedLists(_, _)
SortedLists(t, ids) ==
    IF ids = {} THEN {<<>>}
    ELSE UNION {{<<m>> \o r : r \in SortedLists(t, ids \ {m})} :
                   m \in {x \in ids : \A y \in ids : PendingKeyLeq(t, x, y)}}

PendingLists(t) == SortedLists(t, PendingIds(t))

\* The lists a reorder request carries: every list without a repeated id, and
\* the lists that name one id twice.
OrderLists == {s \in SeqsUpTo(TodoIds, MaxOrderLen) : DupFree(s) \/ Len(s) = 2}

\* The history of the /todos page.  start and end are None when the parameter
\* is absent or empty, BadDate when date.fromisoformat refuses it (the filter
\* is then left out), a day otherwise; a history_status other than done and
\* giveup keeps both.
HistoryIds(t, start, end, history_status) ==
    {i \in DOMAIN t :
        /\ t[i].status \in {"done", "giveup"}
        /\ (start \notin {None, BadDate} => t[i].date >= start)
        /\ (end \notin {None, BadDate} => t[i].date <= end)
        /\ (history_status = "done" => t[i].status = "done")
        /\ (history_status = "giveup" => t[i].status = "giveup")}

\* ORDER BY date DESC, id DESC: the position of a row among the matching rows.
HistoryPosition(t, M, i) ==
    1 + Cardinality({j \in M : (t[j].date > t[i].date)
                                \/ (t[j].date = t[i].date /\ j > i)})

\* .offset(offset).limit(per_page).all()
HistorySlice(t, M, offset, per_page) ==
    LET pos == [i \in M |-> HistoryPosition(t, M, i)]
        n == IF Cardinality(M) - offset < 0 THEN 0
             ELSE IF Cardinality(M) - offset > per_page THEN per_page
             ELSE Cardinality(M) - offset
    IN [k \in 1 .. n |-> CHOOSE i \in M : pos[i] = offset + k]

\* A variant that divides rounding down.
HistoryTotalPagesFloor(total, per_page) ==
    IF total > 0
    THEN (IF total \div per_page < 1 THEN 1 ELSE total \div per_page)
    ELSE 1

\* max(1, (total_history + per_page - 1) // per_page) when total_history > 0,
\* 1 otherwise.
HistoryTotalPages(total, per_page) ==
    IF total > 0
    THEN (IF (total + per_page - 1) \div per_page < 1 THEN 1
          ELSE (total + per_page - 1) \div per_page)
    ELSE 1

\* max(1, min(history_page, total_pages))
ClampPage(history_page, total_pages) ==
    LET m == IF history_page < total_pages THEN history_page ELSE total_pages
    IN IF m < 1 THEN 1 ELSE m

todo_page(start, end, history_status, history_page) ==
    /\ LET per_page == HISTORY_ITEMS_PER_PAGE
           M == HistoryIds(todos, start, end, history_status)
           total_history == Cardinality(M)
           total_pages == HistoryTotalPages(total_history, per_page)
           page == ClampPage(history_page, total_pages)
       IN \E pending_items \in PendingLists(todos) :
          last' = [op |-> "todo_page", status |-> 200,
                   items |-> pending_items,
                   asked |-> history_page,
                   total |-> total_history,
                   history_total_pages |-> total_pages,
                   history_page |-> page,
                   offset |-> (page - 1) * per_page,
                   history_items |-> HistorySlice(todos, M, (page - 1) * per_page, per_page)]
    /\ UNCHANGED <<diaries, schedules, todos, minted, today, files, dirs, sess>>

(***************************************************************************)
(* The store behind the ORM (models.py, db.py).                            *)
(***************************************************************************)
\* An Integer primary key the INSERT leaves out: with the default store
\* (sqlite:///./steplog.db, a rowid table without AUTOINCREMENT) the new key is
\* one more than the largest key of the table, 1 for an empty table.
NextRowId(table) == IF DOMAIN table = {} THEN 1 ELSE MaxOf(DOMAIN table) + 1

\* The rows of a table in the order a query without ORDER BY scans them.
RECURSIVE ScanIds(_)
ScanIds(S) ==
    IF S = {} THEN <<>>
    ELSE LET m == CHOOSE x \in S : \A y \in S : x <= y IN <<m>> \o ScanIds(S \ {m})

TotalRows == Cardinality(DOMAIN diaries) + Cardinality(DOMAIN schedules)
                + Cardinality(DOMAIN todos)

(***************************************************************************)
(* The host's file system, as far as pathlib and open() use it.  A path is *)
(* the sequence of its segments from the root; BASE_DIR is the root here.  *)
(***************************************************************************)
DotDot == 0

UPLOADS == 100

UPLOAD_DIR == <<UPLOADS>>

FileNames == {1, 2}

Bytes == {1, 2}

Parent(path) == IF path = <<>> THEN <<>> ELSE SubSeq(path, 1, Len(path) - 1)

IsDir(d, path) == path = <<>> \/ path \in d

IsPrefix(p, q) == Len(p) <= Len(q) /\ SubSeq(q, 1, Len(p)) = p

UnderUploadDir(path) == IsPrefix(UPLOAD_DIR, path) /\ path # UPLOAD_DIR

\* The files below the upload directory: what /uploads serves and backup_db walks.
UploadTree(f) == [p \in {q \in DOMAIN f : UnderUploadDir(q)} |-> f[p]]

\* target_path.parent.mkdir(parents=True, exist_ok=True), one segment of the
\* parent at a time, from location loc: ".." steps up, a name steps down and
\* is created as a directory when nothing is there; a regular file in the way
\* raises (FileExistsError / NotADirectoryError).
RECURSIVE MkdirParents(_, _, _, _)
MkdirParents(f, d, loc, segs) ==
    IF segs = <<>> THEN [ok |-> TRUE, dirs |-> d, loc |-> loc]
    ELSE LET s == Head(segs) IN
         IF s = DotDot THEN MkdirParents(f, d, Parent(loc), Tail(segs))
         ELSE LET nxt == Append(loc, s) IN
              IF nxt \in DOMAIN f THEN [ok |-> FALSE, dirs |-> d, loc |-> loc]
              ELSE MkdirParents(f, d \cup {nxt}, nxt, Tail(segs))

\* A variant that empties the upload directory before it writes the member.
WriteUploadReplacing(f, d, rel, data) ==
    IF rel = <<>> THEN [ok |-> TRUE, files |-> f, dirs |-> d]
    ELSE LET par == MkdirParents(f, d, UPLOAD_DIR, SubSeq(rel, 1, Len(rel) - 1))
             lst == rel[Len(rel)]
             target == Append(par.loc, lst)
             kept == [p \in {q \in DOMAIN f : ~UnderUploadDir(q)} |-> f[p]]
         IN  IF ~par.ok THEN [ok |-> FALSE, files |-> f, dirs |-> par.dirs]
             ELSE IF lst = DotDot \/ IsDir(par.dirs, target)
                  THEN [ok |-> FALSE, files |-> f, dirs |-> par.dirs]
                  ELSE [ok |-> TRUE, files |-> Insert(kept, target, data), dirs |-> par.dirs]

\* Lines 205-215 for one uploads/ member: rel is the member name after
\* "uploads/", split at "/".  An empty rel is skipped; open(..., "wb") raises
\* IsADirectoryError on a directory and otherwise creates or truncates the file.
WriteUpload(f, d, rel, data) ==
    IF rel = <<>> THEN [ok |-> TRUE, files |-> f, dirs |-> d]
    ELSE LET par == MkdirParents(f, d, UPLOAD_DIR, SubSeq(rel, 1, Len(rel) - 1))
             lst == rel[Len(rel)]
             target == Append(par.loc, lst)
         IN  IF ~par.ok THEN [ok |-> FALSE, files |-> f, dirs |-> par.dirs]
             ELSE IF lst = DotDot \/ IsDir(par.dirs, target)
                  THEN [ok |-> FALSE, files |-> f, dirs |-> par.dirs]
                  ELSE [ok |-> TRUE, files |-> Insert(f, target, data), dirs |-> par.dirs]

\* A variant that goes on to the response when a member raises.
RECURSIVE WriteUploadsSwallow(_, _, _)
WriteUploadsSwallow(f, d, entries) ==
    IF entries = <<>> THEN [ok |-> TRUE, files |-> f, dirs |-> d]
    ELSE LET w == WriteUpload(f, d, Head(entries).rel, Head(entries).data) IN
         IF w.ok THEN WriteUploadsSwallow(w.files, w.dirs, Tail(entries))
         ELSE [ok |-> TRUE, files |-> w.files, dirs |-> w.dirs]

\* The loop of lines 203-215 over image_names: it stops at the first member
\* that raises and keeps what the members before it wrote.
RECURSIVE WriteUploads(_, _, _)
WriteUploads(f, d, entries) ==
    IF entries = <<>> THEN [ok |-> TRUE, files |-> f, dirs |-> d]
    ELSE LET w == WriteUpload(f, d, Head(entries).rel, Head(entries).data) IN
         IF w.ok THEN WriteUploads(w.files, w.dirs, Tail(entries)) ELSE w

\* The location a member name after "uploads/" denotes.
RECURSIVE Resolve(_, _)
Resolve(loc, segs) ==
    IF segs = <<>> THEN loc
    ELSE IF Head(segs) = DotDot THEN Resolve(Parent(loc), Tail(segs))
         ELSE Resolve(Append(loc, Head(segs)), Tail(segs))

TargetOf(rel) == Resolve(UPLOAD_DIR, rel)

(***************************************************************************)
(* Archives.  A member name is one of                                      *)
(*   steplog_backup.json                [kind "legacy"]                    *)
(*   steplog_backup_<mid>.json          [kind "stamped", mid]              *)
(*   any other name outside uploads/    [kind "other"]                     *)
(* where mid is a string of characters: 0..9 stand for the digits, larger  *)
(* numbers for letters (all of them sort after "." as in ASCII).           *)
(***************************************************************************)
LegacyName == [kind |-> "legacy", mid |-> <<>>]

Stamped(mid) == [kind |-> "stamped", mid |-> mid]

OtherName == [kind |-> "other", mid |-> <<>>]

\* strftime("%Y%m%d") of the clock: the date as a fixed number of digits (two
\* here, eight in the code).
DateDigits(day) == <<(day \div 10) % 10, day % 10>>

\* A name of the form steplog_backup_YYYYMMDD.json.
IsDated(name) ==
    /\ name.kind = "stamped"
    /\ Len(name.mid) = Len(DateDigits(0))
    /\ \A i \in DOMAIN name.mid : name.mid[i] <= 9

\* Python's str comparison of two stamped names: the common prefix and the
\* common suffix ".json" leave the comparison to mid, a proper prefix first.
RECURSIVE LexLess(_, _)
LexLess(a, b) ==
    IF b = <<>> THEN FALSE
    ELSE IF a = <<>> THEN TRUE
    ELSE IF Head(a) # Head(b) THEN Head(a) < Head(b)
    ELSE LexLess(Tail(a), Tail(b))

\* Lines 65-79: the member restore_db reads, None when there is none.
NoName == [kind |-> "none", mid |-> <<>>]

\* A variant that takes any member that is not an upload as a candidate.
SelectBackupNameAnyJson(namelist) ==
    IF LegacyName \in namelist THEN LegacyName
    ELSE LET candidates == {n \in namelist : n.kind \in {"stamped", "other"}} IN
         IF candidates = {} THEN NoName
         ELSE CHOOSE n \in candidates :
                \A m \in candidates : m = n \/ m.kind = "other" \/ LexLess(m.mid, n.mid)

\* A variant that looks for the stamped names first and for the legacy name
\* only when there is none.
SelectBackupNameStampedFirst(namelist) ==
    LET candidates == {n \in namelist : n.kind = "stamped"} IN
    IF candidates # {}
    THEN CHOOSE n \in candidates : \A m \in candidates : m = n \/ LexLess(m.mid, n.mid)
    ELSE IF LegacyName \in namelist THEN LegacyName ELSE NoName

SelectBackupName(namelist) ==
    IF LegacyName \in namelist THEN LegacyName
    ELSE LET candidates == {n \in namelist : n.kind = "stamped"} IN
         IF candidates = {} THEN NoName
         ELSE CHOOSE n \in candidates :
                \A m \in candidates : m = n \/ LexLess(m.mid, n.mid)

(***************************************************************************)
(* The metadata document.  kind "garbage" is bytes that json.loads or the  *)
(* UTF-8 decoder rejects, "array" is valid JSON whose top-level value is   *)
(* no object, "object" is a JSON object.  A collection of the object is    *)
(* [kind, items]: "list" a JSON array, "missing" an absent key, "scalar"   *)
(* a value that cannot be iterated (null, a number).                       *)
(***************************************************************************)
Coll(items) == [kind |-> "list", items |-> items]

MissingColl == [kind |-> "missing", items |-> <<>>]

ScalarColl == [kind |-> "scalar", items |-> <<>>]

ObjectDoc(d, s, t) == [kind |-> "object", diaries |-> d, schedules |-> s, todos |-> t]

GarbageDoc == [kind |-> "garbage", diaries |-> MissingColl, schedules |-> MissingColl,
               todos |-> MissingColl]

ArrayDoc == [kind |-> "array", diaries |-> MissingColl, schedules |-> MissingColl,
             todos |-> MissingColl]

\* datetime.isoformat() and datetime.fromisoformat(): a timestamp string is
\* [kind, v], "iso" the ISO-8601 text of instant v, "bad" any other non-empty
\* text, "null" None or the empty string.
IsoFormat(ts) == [kind |-> "iso", v |-> ts]

NullStamp == [kind |-> "null", v |-> 0]

BadStamp == [kind |-> "bad", v |-> 0]

\* Lines 122-127: None unless the text is present and parses.
ParseCreatedAt(text) == IF text.kind = "iso" THEN text.v ELSE None

(***************************************************************************)
(* routers/backup.py                                                       *)
(***************************************************************************)
_serialize_diary(id, row) ==
    [id |-> id, title |-> row.title,
     created_at |-> IF row.created_at # None THEN IsoFormat(row.created_at) ELSE NullStamp]

_serialize_schedule(id, row) ==
    [id |-> id, date |-> row.date, title |-> row.title, time_str |-> row.time_str]

_serialize_todo(id, row) ==
    [id |-> id, date |-> row.date, title |-> row.title, status |-> row.status,
     order |-> row.order]

\* Lines 91-101: the rows of each table as the query returns them, serialized.
\* A variant that reads the first row of the diaries only.
SerializedDiariesFirstPage ==
    LET ids == ScanIds(DOMAIN diaries) IN
    [i \in DOMAIN ids \cap {1} |-> _serialize_diary(ids[i], diaries[ids[i]])]

SerializedDiaries ==
    LET ids == ScanIds(DOMAIN diaries) IN
    [i \in DOMAIN ids |-> _serialize_diary(ids[i], diaries[ids[i]])]

SerializedSchedules ==
    LET ids == ScanIds(DOMAIN schedules) IN
    [i \in DOMAIN ids |-> _serialize_schedule(ids[i], schedules[ids[i]])]

SerializedTodos ==
    LET ids == ScanIds(DOMAIN todos) IN
    [i \in DOMAIN ids |-> _serialize_todo(ids[i], todos[ids[i]])]

\* The members a walk of the upload directory adds (lines 124-131), in the
\* order of the walk; arcname is "uploads/" and the path relative to it.
RECURSIVE WalkUploads(_, _)
WalkUploads(f, paths) ==
    IF paths = {} THEN <<>>
    ELSE LET p == CHOOSE x \in paths : \A y \in paths : x = y \/ LexLess(x, y)
         IN  <<[rel |-> SubSeq(p, Len(UPLOAD_DIR) + 1, Len(p)), data |-> f[p]]>>
                \o WalkUploads(f, paths \ {p})

BackupArchive ==
    LET name == Stamped(DateDigits(today))
        doc == ObjectDoc(Coll(SerializedDiaries), Coll(SerializedSchedules),
                         Coll(SerializedTodos))
    IN  [fname |-> "zip", zip |-> TRUE,
         members |-> [n \in {name} |-> doc],
         uploads |-> IF IsDir(dirs, UPLOAD_DIR)
                     THEN WalkUploads(files, {p \in DOMAIN files : UnderUploadDir(p)})
                     ELSE <<>>]

backup_db ==
    /\ last' = [op |-> "backup_db", status |-> 200, archive |-> BackupArchive]
    /\ UNCHANGED <<diaries, schedules, todos, minted, today, files, dirs, sess>>

(***************************************************************************)
(* routers/restore_router.py                                               *)
(***************************************************************************)
NoTime == "None"

\* Lines 120-152: the Diary rows of the archive; the key is left to the store,
\* created_at is the parsed text or, without one, the store's now().
RECURSIVE RestoreDiaries(_, _)
RestoreDiaries(table, recs) ==
    IF recs = <<>> THEN table
    ELSE LET d == Head(recs)
             created_at == ParseCreatedAt(d.created_at)
         IN  RestoreDiaries(
                Insert(table, NextRowId(table),
                       [title |-> d.title,
                        created_at |-> IF created_at # None THEN created_at ELSE today]),
                Tail(recs))

\* Lines 157-166: the Schedule rows; the key is left to the store, and a
\* record without date gets the empty string (s.get("date") or "").
RECURSIVE RestoreSchedules(_, _)
RestoreSchedules(table, recs) ==
    IF recs = <<>> THEN table
    ELSE LET r == Head(recs) IN
         RestoreSchedules(
            Insert(table, NextRowId(table),
                   [date |-> IF r.date = None THEN EmptyDate ELSE r.date,
                    title |-> r.title, time_str |-> r.time_str]),
            Tail(recs))

\* Lines 171-179: one Todo row; `or` replaces None, "" and 0 by the default.
\* A variant that does not take the rank from the record.
RestoredTodoRankReset(t) ==
    [date |-> t.date, title |-> t.title,
     status |-> IF t.status = "" THEN "pending" ELSE t.status,
     order |-> 0]

RestoredTodo(t) ==
    [date |-> t.date, title |-> t.title,
     status |-> IF t.status = "" THEN "pending" ELSE t.status,
     order |-> IF t.order = None THEN 0 ELSE t.order]

RestoreTodos(recs) ==
    [id \in {recs[i].id : i \in DOMAIN recs} |->
        RestoredTodo(recs[CHOOSE i \in DOMAIN recs : recs[i].id = id])]

\* What makes lines 120-181 raise: a collection that cannot be iterated, and at
\* the flush of the final commit a todo without a primary key or two todos
\* with the same one.
DbPhaseRaises(doc) ==
    \/ \E c \in {doc.diaries, doc.schedules, doc.todos} : c.kind = "scalar"
    \/ \E i \in DOMAIN doc.todos.items : doc.todos.items[i].id = None
    \/ ~DupFree([i \in DOMAIN doc.todos.items |-> doc.todos.items[i].id])

\* Lines 110-185.  The three deletes are committed at line 115, before the
\* first insert; the rollback of line 184 undoes the inserts only.
DbPhase(doc) ==
    IF DbPhaseRaises(doc)
    THEN [ok |-> FALSE, diaries |-> EmptyTable, schedules |-> EmptyTable,
          todos |-> EmptyTable]
    ELSE [ok |-> TRUE,
          diaries |-> RestoreDiaries(EmptyTable, doc.diaries.items),
          schedules |-> RestoreSchedules(EmptyTable, doc.schedules.items),
          todos |-> RestoreTodos(doc.todos.items)]

\* Where an uploads/ member is written when its write succeeds.
Targets(a) == {TargetOf(a.uploads[i].rel) : i \in {j \in DOMAIN a.uploads : a.uploads[j].rel # <<>>}}

\* The request and its response: what was uploaded (whether it was a readable
\* ZIP, its member names, where its uploads/ members point, the kind and the
\* todo records of the member that was read, whether it is the archive
\* backup_db has just produced) and what came back.
Outcome(a, status, detail, read) ==
    [op |-> "restore_db", status |-> status, detail |-> detail,
     zip |-> a.fname = "zip" /\ a.zip,
     names |-> DOMAIN a.members,
     read |-> read,
     doc_kind |-> IF read = NoName THEN "none" ELSE a.members[read].kind,
     todos |-> IF read # NoName /\ a.members[read].kind = "object"
                  /\ a.members[read].todos.kind = "list"
               THEN a.members[read].todos.items ELSE <<>>,
     targets |-> Targets(a),
     fresh |-> last.op = "backup_db" /\ a = last.archive]

\* A variant that writes the upload members as soon as the metadata has been
\* parsed, before the database phase.
restore_dbAssetsFirst(a) ==
    LET name == SelectBackupName(DOMAIN a.members)
        doc == a.members[name]
        db == DbPhase(doc)
        up == WriteUploads(files, dirs \cup {UPLOAD_DIR}, a.uploads)
        rejected(status, detail, read) ==
            /\ last' = Outcome(a, status, detail, read)
            /\ UNCHANGED <<diaries, schedules, todos, files, dirs>>
    IN
    /\ IF a.fname # "zip" THEN rejected(400, "not_zip_name", NoName)
       ELSE IF ~a.zip THEN rejected(400, "bad_zip", NoName)
       ELSE IF name = NoName THEN rejected(400, "no_backup_json", NoName)
       ELSE IF doc.kind = "garbage" THEN rejected(400, "json_parse", name)
       ELSE IF doc.kind # "object" THEN rejected(500, "unhandled", name)
       ELSE /\ diaries' = db.diaries
            /\ schedules' = db.schedules
            /\ todos' = db.todos
            /\ files' = up.files
            /\ dirs' = up.dirs
            /\ last' = IF ~up.ok THEN Outcome(a, 500, "image_restore", name)
                       ELSE IF ~db.ok THEN Outcome(a, 500, "db_restore", name)
                       ELSE Outcome(a, 303, "ok", name)
    /\ UNCHANGED <<minted, today, sess>>

restore_db(a) ==
    LET name == SelectBackupName(DOMAIN a.members)
        doc == a.members[name]
        db == DbPhase(doc)
        up == WriteUploads(files, dirs \cup {UPLOAD_DIR}, a.uploads)
        rejected(status, detail, read) ==
            /\ last' = Outcome(a, status, detail, read)
            /\ UNCHANGED <<diaries, schedules, todos, files, dirs>>
    IN
    /\ IF a.fname # "zip" THEN rejected(400, "not_zip_name", NoName)
       ELSE IF ~a.zip THEN rejected(400, "bad_zip", NoName)
       ELSE IF name = NoName THEN rejected(400, "no_backup_json", NoName)
       ELSE IF doc.kind = "garbage" THEN rejected(400, "json_parse", name)
       ELSE IF doc.kind # "object" THEN rejected(500, "unhandled", name)
       ELSE /\ diaries' = db.diaries
            /\ schedules' = db.schedules
            /\ todos' = db.todos
            /\ IF ~db.ok
               THEN /\ last' = Outcome(a, 500, "db_restore", name)
                    /\ UNCHANGED <<files, dirs>>
               ELSE /\ files' = up.files
                    /\ dirs' = up.dirs
                    /\ last' = IF up.ok THEN Outcome(a, 303, "ok", name)
                               ELSE Outcome(a, 500, "image_restore", name)
    /\ UNCHANGED <<minted, today, sess>>

(***************************************************************************)
(* routers/diary.py and routers/schedule.py: the requests that fill the    *)
(* other two tables and the upload directory.                              *)
(***************************************************************************)
\* save_entry: a photo is written to UPLOAD_DIR under a name made of the clock
\* before the row is inserted; open() raises on a directory of that name.
save_entry(title, photo) ==
    LET save_path == Append(UPLOAD_DIR, today) IN
    /\ TotalRows < MaxRecs
    /\ IF photo # None /\ IsDir(dirs, save_path)
       THEN /\ last' = [op |-> "save_entry", status |-> 500]
            /\ UNCHANGED <<diaries, files>>
       ELSE /\ files' = IF photo = None THEN files ELSE Insert(files, save_path, photo)
            /\ diaries' = Insert(diaries, NextRowId(diaries),
                                 [title |-> title, created_at |-> today])
            /\ last' = [op |-> "save_entry", status |-> 303]
    /\ UNCHANGED <<schedules, todos, minted, today, dirs, sess>>

delete_entry(id) ==
    /\ IF id \in DOMAIN diaries
       THEN /\ diaries' = Remove(diaries, id)
            /\ last' = [op |-> "delete_entry", status |-> 303]
       ELSE /\ diaries' = diaries
            /\ last' = [op |-> "delete_entry", status |-> 404]
    /\ UNCHANGED <<schedules, todos, minted, today, files, dirs, sess>>

create_schedule(date_str, title, time_str) ==
    /\ TotalRows < MaxRecs
    /\ schedules' = Insert(schedules, NextRowId(schedules),
                           [date |-> date_str, title |-> title,
                            time_str |-> IF time_str = "" THEN NoTime ELSE time_str])
    /\ last' = [op |-> "create_schedule", status |-> 303]
    /\ UNCHANGED <<diaries, todos, minted, today, files, dirs, sess>>

delete_schedule(id) ==
    /\ IF id \in DOMAIN schedules
       THEN /\ schedules' = Remove(schedules, id)
            /\ last' = [op |-> "delete_schedule", status |-> 303]
       ELSE /\ schedules' = schedules
            /\ last' = [op |-> "delete_schedule", status |-> 404]
    /\ UNCHANGED <<diaries, todos, minted, today, files, dirs, sess>>

(***************************************************************************)
(* deps.py: the schedule items and their sort key.                         *)
(***************************************************************************)
IsIsoDate(d) == d \notin {EmptyDate, BadDate, None}

\* str.strip(): the text of blanks becomes the empty text.
Strip(text) == IF text = " " THEN "" ELSE text

\* str.split(":") of the time texts the requests carry.
SplitColon(text) ==
    CASE text = "09:00" -> <<"09", "00">>
      [] text = "23:59" -> <<"23", "59">>
      [] text = "24:30" -> <<"24", "30">>
      [] text = "10:30:00" -> <<"10", "30", "00">>
      [] OTHER -> <<text>>

\* int() of a field: the number it writes, None when int() raises ValueError.
IntOf(field) ==
    CASE field = "00" -> 0
      [] field = "09" -> 9
      [] field = "10" -> 10
      [] field = "23" -> 23
      [] field = "24" -> 24
      [] field = "30" -> 30
      [] field = "59" -> 59
      [] OTHER -> None

\* h, m = map(int, t_str.split(":")) under try/except ValueError: a field
\* int() refuses, or a number of fields other than two, gives 23, 59.
ParseClock(t_str) ==
    LET f == SplitColon(t_str) IN
    IF Len(f) = 2 /\ IntOf(f[1]) # None /\ IntOf(f[2]) # None
    THEN <<IntOf(f[1]), IntOf(f[2])>>
    ELSE <<23, 59>>

\* The key (d, has_time, h, m) of an item [id, date, title, time_str]; ok is
\* FALSE when date.fromisoformat raises.
schedule_sort_key(item) ==
    LET t_str == Strip(IF item.time_str = NoTime THEN "" ELSE item.time_str)
        hm == IF t_str # "" THEN ParseClock(t_str) ELSE <<0, 0>>
    IN [ok |-> IsIsoDate(item.date), d |-> item.date,
        has_time |-> IF t_str # "" THEN 1 ELSE 0, h |-> hm[1], m |-> hm[2]]

\* The order of Python tuples.
KeyLess(a, b) ==
    \/ a.d < b.d
    \/ a.d = b.d /\ a.has_time < b.has_time
    \/ a.d = b.d /\ a.has_time = b.has_time /\ a.h < b.h
    \/ a.d = b.d /\ a.has_time = b.has_time /\ a.h = b.h /\ a.m < b.m

\* list.sort(key=schedule_sort_key) and sorted(..., key=schedule_sort_key): a
\* stable sort, items of equal key keep the order they came in.
SortedByKey(items) ==
    IF items = <<>> THEN <<>>
    ELSE LET n == Len(items)
             k == [i \in 1 .. n |-> schedule_sort_key(items[i])]
             p == CHOOSE q \in [1 .. n -> 1 .. n] :
                    /\ \A i, j \in 1 .. n : q[i] = q[j] => i = j
                    /\ \A i, j \in 1 .. n :
                          i < j => \/ KeyLess(k[q[i]], k[q[j]])
                                   \/ (~KeyLess(k[q[j]], k[q[i]]) /\ q[i] < q[j])
         IN [i \in 1 .. n |-> items[p[i]]]

\* The order of the title strings "x" and "y".
TitleRank(title) == IF title = "x" THEN 1 ELSE 2

\* ORDER BY date, title over the rows ids: rows the two columns do not
\* separate come in whatever order the store returns them.
ScheduleScans(t, ids) ==
    {q \in [1 .. Cardinality(ids) -> ids] :
        /\ DupFree(q)
        /\ \A i, j \in DOMAIN q :
              i < j => \/ t[q[i]].date < t[q[j]].date
                       \/ /\ t[q[i]].date = t[q[j]].date
                          /\ TitleRank(t[q[i]].title) <= TitleRank(t[q[j]].title)}

ScheduleItem(t, id) ==
    [id |-> id, date |-> t[id].date, title |-> t[id].title, time_str |-> t[id].time_str]

ItemIds(items) == [i \in DOMAIN items |-> items[i].id]

\* load_schedule: the rows in the order rows of the query, as items, sorted
\* by schedule_sort_key; ok is FALSE when the key of an item raises.
load_schedule(t, rows) ==
    LET items == [i \in DOMAIN rows |-> ScheduleItem(t, rows[i])] IN
    IF \E i \in DOMAIN items : ~schedule_sort_key(items[i]).ok
    THEN [ok |-> FALSE, items |-> <<>>]
    ELSE [ok |-> TRUE, items |-> SortedByKey(items)]

\* routers/schedule.py, update_schedule.
update_schedule(id, date_str, title, time_str) ==
    /\ IF id \in DOMAIN schedules
       THEN /\ schedules' = [schedules EXCEPT ![id] =
                                [date |-> date_str, title |-> title,
                                 time_str |-> IF time_str = "" THEN NoTime ELSE time_str]]
            /\ last' = [op |-> "update_schedule", status |-> 303]
       ELSE /\ schedules' = schedules
            /\ last' = [op |-> "update_schedule", status |-> 404]
    /\ UNCHANGED <<diaries, todos, minted, today, files, dirs, sess>>

\* routers/schedule.py, schedule_page: the rows from today on, within the
\* window when its dates parse, in the order of the query.
schedule_page(start, end) ==
    /\ LET ids == {i \in DOMAIN schedules :
                     /\ schedules[i].date >= today
                     /\ (start \notin {None, BadDate} => schedules[i].date >= start)
                     /\ (end \notin {None, BadDate} => schedules[i].date <= end)}
       IN \E rows \in ScheduleScans(schedules, ids) :
             last' = [op |-> "schedule_page", status |-> 200, items |-> rows]
    /\ UNCHANGED <<diaries, schedules, todos, minted, today, files, dirs, sess>>

\* load_todos, lines 494-496: a status outside the three becomes pending.
CoercedStatus(status) == IF status \in Statuses THEN status ELSE "pending"

\* load_todos: ORDER BY date, order, id.
LoadTodosBefore(t, a, b) ==
    \/ t[a].date < t[b].date
    \/ t[a].date = t[b].date /\ t[a].order < t[b].order
    \/ t[a].date = t[b].date /\ t[a].order = t[b].order /\ a < b

load_todos(t) ==
    [k \in 1 .. Cardinality(DOMAIN t) |->
        LET id == CHOOSE i \in DOMAIN t :
                    Cardinality({j \in DOMAIN t : LoadTodosBefore(t, j, i)}) = k - 1
        IN [id |-> id, date |-> t[id].date, title |-> t[id].title,
            status |-> CoercedStatus(t[id].status)]]

\* main.py, dashboard: the items of load_schedule from today to 15 days on,
\* sorted by their key again, and the pending items of load_todos.  A key
\* that raises in load_schedule ends the request with 500.
dashboard ==
    /\ \E rows \in ScheduleScans(schedules, DOMAIN schedules) :
          LET loaded == load_schedule(schedules, rows)
              upcoming == SelectSeq(loaded.items,
                                    LAMBDA it : today <= it.date /\ it.date <= today + 15)
              today_todos == SelectSeq(load_todos(todos), LAMBDA it : it.status = "pending")
          IN last' = IF loaded.ok
                     THEN [op |-> "dashboard", status |-> 200,
                           upcoming |-> ItemIds(SortedByKey(upcoming)),
                           today_todos |-> ItemIds(today_todos)]
                     ELSE [op |-> "dashboard", status |-> 500,
                           upcoming |-> <<>>, today_todos |-> <<>>]
    /\ UNCHANGED <<diaries, schedules, todos, minted, today, files, dirs, sess>>

\* routers/stats.py, stats_page: the counts over all rows.
stats_page ==
    /\ last' = [op |-> "stats_page", status |-> 200,
                overall_total |-> Cardinality(DOMAIN todos),
                overall_done |-> Cardinality({i \in DOMAIN todos : todos[i].status = "done"}),
                overall_giveup |-> Cardinality({i \in DOMAIN todos : todos[i].status = "giveup"}),
                overall_pending |-> Cardinality(PendingIds(todos))]
    /\ UNCHANGED <<diaries, schedules, todos, minted, today, files, dirs, sess>>

(***************************************************************************)
(* deps.py, require_auth, and main.py, FastAPI(dependencies=[...]): the     *)
(* check runs before the handler of every route of the app and its routers. *)
(***************************************************************************)
\* The Authorization header of a request: absent, or Basic credentials.
NoCredentials == [present |-> FALSE, username |-> "", password |-> ""]

Basic(username, password) == [present |-> TRUE, username |-> username, password |-> password]

\* DIARY_USER and DIARY_PASSWORD: "" stands for a variable that is unset or
\* empty, which `not correct_user` treats alike.
AuthEnv(user, pass) == [user |-> user, pass |-> pass]

\* A variant that compares the user name only.
AuthCheckUserOnly(env, header) ==
    IF ~header.present THEN [status |-> 401, challenge |-> TRUE]
    ELSE IF env.user = "" \/ env.pass = "" THEN [status |-> 500, challenge |-> FALSE]
    ELSE IF header.username # env.user THEN [status |-> 401, challenge |-> TRUE]
    ELSE [status |-> 200, challenge |-> FALSE]

\* security = HTTPBasic() answers a request without Basic credentials with
\* 401 and the challenge before require_auth runs; then lines 139-155.
AuthCheck(env, header) ==
    IF ~header.present THEN [status |-> 401, challenge |-> TRUE]
    ELSE IF env.user = "" \/ env.pass = "" THEN [status |-> 500, challenge |-> FALSE]
    ELSE IF header.username # env.user \/ header.password # env.pass
         THEN [status |-> 401, challenge |-> TRUE]
    ELSE [status |-> 200, challenge |-> FALSE]

\* The first step of a request: the check, which reads the environment and
\* the header and touches nothing.
require_auth(env, header) ==
    /\ last' = [op |-> "require_auth", status |-> AuthCheck(env, header).status,
                challenge |-> AuthCheck(env, header).challenge,
                env |-> env, header |-> header]
    /\ UNCHANGED <<diaries, schedules, todos, minted, today, files, dirs, sess>>

\* The second step: the handler runs when the check returned.
Admitted == last.op = "require_auth" /\ last.status = 200

(***************************************************************************)
(* The requests the model issues.                                          *)
(***************************************************************************)
NewTitles == {"x"}

TRec(id, status, order) ==
    [id |-> id, date |-> 1, title |-> "x", status |-> status, order |-> order]

\* Todo records of an uploaded document: ranks 0, 5 and the sentinel, a record
\* without rank, without status, with a status outside the enum, without id,
\* and two records with the same id.
TodoRecs ==
    {TRec(101, "pending", 5), TRec(101, "done", 0), TRec(102, "", None),
     TRec(102, "archived", SENTINEL_ORDER), TRec(None, "pending", 1)}

SchedRecs ==
    {[id |-> 7, date |-> 1, title |-> "x", time_str |-> NoTime],
     [id |-> 9, date |-> 0, title |-> "y", time_str |-> "09:00"]}

DiaryRecs ==
    {[id |-> 3, title |-> "x", created_at |-> IsoFormat(1)],
     [id |-> 4, title |-> "y", created_at |-> BadStamp],
     [id |-> 5, title |-> "y", created_at |-> NullStamp]}

\* Documents with records: of one table, or one record of each.
RecDocs ==
    {ObjectDoc(Coll(d), Coll(<<>>), Coll(<<>>)) : d \in SeqsUpTo(DiaryRecs, MaxRecs)}
    \cup {ObjectDoc(Coll(<<>>), Coll(x), Coll(<<>>)) : x \in SeqsUpTo(SchedRecs, MaxRecs)}
    \cup {ObjectDoc(Coll(<<>>), Coll(<<>>), Coll(t)) : t \in SeqsUpTo(TodoRecs, MaxRecs)}
    \cup {ObjectDoc(Coll(<<d>>), Coll(<<x>>), Coll(<<t>>)) :
             d \in DiaryRecs, x \in SchedRecs, t \in {TRec(101, "pending", 5)}}

OddDocs ==
    {GarbageDoc, ArrayDoc,
     ObjectDoc(MissingColl, MissingColl, MissingColl),
     ObjectDoc(Coll(<<>>), Coll(<<>>), ScalarColl),
     ObjectDoc(ScalarColl, Coll(<<>>), Coll(<<TRec(101, "pending", 5)>>))}

Docs == RecDocs \cup OddDocs

Archive(fname, zip, members, uploads) ==
    [fname |-> fname, zip |-> zip, members |-> members, uploads |-> uploads]

NoMembers == [n \in {} |-> GarbageDoc]

\* Member names of an upload: the legacy name, two dated names, a name with
\* the prefix and the suffix but no date in between, and an unrelated name.
MetaNames == {LegacyName, Stamped(<<0, 1>>), Stamped(<<0, 2>>), Stamped(<<50>>), OtherName}

\* A document that tells which member it came from, by the id of its one todo.
MemberMark(n) ==
    IF n.kind = "legacy" THEN 200
    ELSE IF n.kind = "other" THEN 299 ELSE 201 + n.mid[Len(n.mid)]

MarkerDoc(n) == ObjectDoc(Coll(<<>>), Coll(<<>>), Coll(<<TRec(MemberMark(n), "pending", 1)>>))

DbArchives ==
    {Archive("zip", TRUE, [n \in {Stamped(<<0, 1>>)} |-> doc], <<>>) : doc \in Docs}
    \cup {Archive("zip", TRUE, [n \in names |-> MarkerDoc(n)], <<>>) : names \in SUBSET MetaNames}
    \cup {Archive("jpg", TRUE, [n \in {LegacyName} |-> MarkerDoc(n)], <<>>),
          Archive("zip", FALSE, NoMembers, <<>>)}

RelPaths == {<<>>, <<1>>, <<1, 2>>, <<1, DotDot, 2>>, <<DotDot, 1>>}

UploadEntries == {[rel |-> r, data |-> 2] : r \in RelPaths}

UploadLists == SeqsUpTo(UploadEntries, MaxUploads)

AssetDoc == ObjectDoc(Coll(<<>>), Coll(<<>>), Coll(<<TRec(101, "pending", 5)>>))

\* A document whose database phase raises: its todo has no id.
FailingDoc == ObjectDoc(Coll(<<>>), Coll(<<>>), Coll(<<TRec(None, "pending", 1)>>))

\* Uploads for the asset side: a restorable archive with every list of
\* upload members, and the archives restore_db rejects or fails to restore
\* with at most one.
AssetArchives ==
    {Archive("zip", TRUE, [n \in {Stamped(<<0, 1>>)} |-> AssetDoc], u) : u \in UploadLists}
    \cup {Archive("zip", TRUE, m, u) :
             m \in {[n \in {Stamped(<<0, 1>>)} |-> GarbageDoc],
                    [n \in {Stamped(<<0, 1>>)} |-> FailingDoc],
                    [n \in {OtherName} |-> AssetDoc],
                    NoMembers},
             u \in SeqsUpTo(UploadEntries, 1)}
    \cup {Archive("zip", FALSE, NoMembers, <<>>)}

\* The archive the caller has just downloaded, if the last request was a backup.
FreshArchives == IF last.op = "backup_db" THEN {last.archive} ELSE {}

(***************************************************************************)
(* Specifications.                                                         *)
(***************************************************************************)
Init ==
    /\ diaries = EmptyTable
    /\ schedules = EmptyTable
    /\ todos = EmptyTable
    /\ minted = 0
    /\ today = 1
    /\ files = EmptyTable
    /\ dirs = {UPLOAD_DIR}
    /\ sess = EmptyTable
    /\ last = [op |-> "start", status |-> 0]

\* The database side of backup and restore.
Next ==
    \/ \E a \in DbArchives \cup FreshArchives : restore_db(a)
    \/ backup_db
    \/ \E title \in NewTitles : save_entry(title, None)
    \/ \E id \in 1 .. MaxRecs : delete_entry(id)
    \/ \E title \in NewTitles : create_schedule(today, title, "")
    \/ \E id \in 1 .. MaxRecs : delete_schedule(id)

Spec == Init /\ [][Next]_vars

\* The asset side of backup and restore.
NextAssets ==
    \/ \E a \in AssetArchives \cup FreshArchives : restore_db(a)
    \/ backup_db
    \/ \E title \in NewTitles, photo \in {1} : save_entry(title, photo)
    \/ AdvanceDay

SpecAssets == Init /\ [][NextAssets]_vars

\* The todo ordering model.
NextTodo ==
    \/ \E title \in NewTitles : create_todo(title)
    \/ \E order \in OrderLists : reorder_todos(order)
    \/ \E id \in TodoIds : mark_todo_done(id)
    \/ \E id \in TodoIds : mark_todo_giveup(id)

SpecTodo == Init /\ [][NextTodo]_vars

\* Every request of routers/todos.py that writes.  The reorders here carry
\* the empty list and the lists of one id that is not a pending todo's (how a
\* list ranks the pending todos is the subject of SpecTodo).
NextTodoCrud ==
    \/ \E title \in NewTitles : create_todo(title)
    \/ \E id \in TodoIds, title \in Titles \ NewTitles : update_todo(id, title)
    \/ \E order \in {o \in OrderLists : Len(o) <= 1 /\ Range(o) \cap PendingIds(todos) = {}} :
          reorder_todos(order)
    \/ \E id \in TodoIds : mark_todo_done(id)
    \/ \E id \in TodoIds : mark_todo_giveup(id)
    \/ \E id \in TodoIds : delete_todo(id)

SpecTodoCrud == Init /\ [][NextTodoCrud]_vars

\* The requests that address one todo by its id, and create_todo to have
\* todos to address.
NextTodoById ==
    \/ \E title \in NewTitles : create_todo(title)
    \/ \E id \in TodoIds, title \in Titles \ NewTitles : update_todo(id, title)
    \/ \E id \in TodoIds : mark_todo_done(id)
    \/ \E id \in TodoIds : mark_todo_giveup(id)
    \/ \E id \in TodoIds : delete_todo(id)

SpecTodoById == Init /\ [][NextTodoById]_vars

\* The /todos page over stores of every size up to MaxHistory: of the rows
\* 1 .. n every eighth is pending, the odd ones are done and the others given
\* up, on days that go round 0 .. MaxDay.
HistoryTable(n) ==
    [i \in 1 .. n |->
        [date |-> i % (MaxDay + 1), title |-> "x",
         status |-> IF i % 8 = 0 THEN "pending"
                    ELSE IF i % 2 = 1 THEN "done" ELSE "giveup",
         order |-> i]]

InitPaging ==
    /\ \E n \in 0 .. MaxHistory : todos = HistoryTable(n) /\ minted = n
    /\ diaries = EmptyTable
    /\ schedules = EmptyTable
    /\ today = MaxDay
    /\ files = EmptyTable
    /\ dirs = {UPLOAD_DIR}
    /\ sess = EmptyTable
    /\ last = [op |-> "start", status |-> 0]

\* The date windows of the requests: none, one a side, an unreadable date a
\* side, the last two days, and a window that holds no day.
HistoryWindows ==
    {<<None, None>>, <<BadDate, None>>, <<None, BadDate>>, <<1, None>>, <<None, 1>>,
     <<MaxDay - 1, MaxDay>>, <<MaxDay, MaxDay - 1>>}

NextPaging ==
    \E w \in HistoryWindows, history_status \in {"all", "done", "giveup"},
       history_page \in (0 - 2) .. MaxPageAsked :
        todo_page(w[1], w[2], history_status, history_page)

SpecPaging == InitPaging /\ [][NextPaging]_vars

\* The schedule requests and the two pages that list schedules.  A restore
\* brings the records of SchedRecs or a record without date.
UndatedRec == [id |-> 8, date |-> None, title |-> "x", time_str |-> "09:00"]

ScheduleArchives ==
    {Archive("zip", TRUE,
             [n \in {LegacyName} |-> ObjectDoc(Coll(<<>>), Coll(x), Coll(<<>>))], <<>>) :
        x \in {<<r>> : r \in SchedRecs \cup {UndatedRec}}}

CreateTimes == {"", "09:00", "bad"}

UpdateTimes == {" ", "23:59", "24:30"}

NextSchedule ==
    \/ \E date_str \in {today, MaxDay}, title \in Titles, time_str \in CreateTimes :
          create_schedule(date_str, title, time_str)
    \/ \E id \in 1 .. MaxRecs, title \in Titles, time_str \in UpdateTimes :
          update_schedule(id, today, title, time_str)
    \/ \E a \in ScheduleArchives : restore_db(a)
    \/ \E w \in {<<None, None>>, <<BadDate, None>>, <<None, today>>} : schedule_page(w[1], w[2])
    \/ dashboard

SpecSchedule == Init /\ [][NextSchedule]_vars

\* The pages that read the todos, over stores that create_todo, reorder_todos
\* and the clock have made, or a restore whose document holds a todo with a
\* status outside the enum.
TodoArchives ==
    {Archive("zip", TRUE,
             [n \in {LegacyName} |-> ObjectDoc(Coll(<<>>), Coll(<<>>), Coll(t))], <<>>) :
        t \in {<<TRec(102, "archived", SENTINEL_ORDER)>>,
               <<TRec(101, "done", 0), TRec(102, "archived", SENTINEL_ORDER)>>}}

NextReads ==
    \/ \E title \in NewTitles : create_todo(title)
    \/ AdvanceDay
    \/ \E order \in {o \in OrderLists : DupFree(o)} : reorder_todos(order)
    \/ \E a \in TodoArchives : restore_db(a)
    \/ todo_page(None, None, "all", 1)
    \/ dashboard
    \/ stats_page

SpecReads == Init /\ [][NextReads]_vars

\* Requests to the app: each is checked, and its handler runs when the check
\* admits it.
AuthEnvs == {AuthEnv(u, p) : u \in {"", "u"}, p \in {"", "p"}}

AuthHeaders == {NoCredentials} \cup {Basic(u, p) : u \in {"u", "v"}, p \in {"p", "q"}}

NextAuth ==
    \/ \E env \in AuthEnvs, header \in AuthHeaders : require_auth(env, header)
    \/ Admitted /\ \E title \in NewTitles : create_todo(title)
    \/ Admitted /\ \E id \in TodoIds : mark_todo_done(id)
    \/ Admitted /\ \E id \in TodoIds : delete_todo(id)
    \/ Admitted /\ \E a \in {Archive("zip", TRUE, [n \in {LegacyName} |-> AssetDoc], u) :
                                u \in SeqsUpTo(UploadEntries, 1)} : restore_db(a)
    \/ Admitted /\ backup_db

SpecAuth == Init /\ [][NextAuth]_vars

(***************************************************************************)
(* reorder_todos of routers/todos.py, statement by statement, for requests *)
(* that run at the same time, each in the session get_db gives it.  The    *)
(* query of lines 368-372 reads outside any write transaction; the loop of *)
(* lines 374-377 changes the session's objects only; db.commit() flushes   *)
(* one UPDATE for every row whose order the loop changed and then commits. *)
(* The store is the default one: it admits one writing transaction at a    *)
(* time and shows its writes to the others at the commit.                  *)
(***************************************************************************)
Reqs == {1, 2}

RECURSIVE Perms(_)
Perms(S) ==
    IF S = {} THEN {<<>>}
    ELSE UNION {{<<x>> \o p : p \in Perms(S \ {x})} : x \in S}

\* The rows the session's flush has to UPDATE: those whose order attribute
\* differs from the value that was loaded.
Dirty(r) == {i \in DOMAIN sess[r].snap : NewOrder(sess[r].order, i) # sess[r].snap[i]}

Writing(r) == r \in DOMAIN sess /\ sess[r].pc = "flush" /\ sess[r].written # {}

reorder_read(r, order) ==
    /\ r \notin DOMAIN sess
    /\ PendingIds(todos) # {}
    /\ sess' = Insert(sess, r,
                 [pc |-> "flush", order |-> order,
                  snap |-> [i \in PendingIds(todos) |-> todos[i].order],
                  written |-> {}])
    /\ UNCHANGED <<diaries, schedules, todos, minted, today, files, dirs, last>>

reorder_write(r, id) ==
    /\ r \in DOMAIN sess
    /\ sess[r].pc = "flush"
    /\ id \in Dirty(r) \ sess[r].written
    /\ \A q \in Reqs \ {r} : ~Writing(q)
    /\ sess' = [sess EXCEPT ![r].written = @ \cup {id}]
    /\ UNCHANGED <<diaries, schedules, todos, minted, today, files, dirs, last>>

reorder_commit(r) ==
    /\ r \in DOMAIN sess
    /\ sess[r].pc = "flush"
    /\ sess[r].written = Dirty(r)
    /\ todos' = [i \in DOMAIN todos |->
                   IF i \in sess[r].written
                   THEN [todos[i] EXCEPT !.order = NewOrder(sess[r].order, i)]
                   ELSE todos[i]]
    /\ sess' = [sess EXCEPT ![r].pc = "done"]
    /\ last' = [op |-> "reorder_todos", status |-> 200,
                listed |-> SelectSeq(KeepLast(sess[r].order), LAMBDA x : x \in DOMAIN sess[r].snap),
                omitted |-> Cardinality(DOMAIN sess[r].snap \ Range(sess[r].order))]
    /\ UNCHANGED <<diaries, schedules, minted, today, files, dirs>>

NextConc ==
    \/ sess = EmptyTable /\ \E title \in NewTitles : create_todo(title)
    \/ \E r \in Reqs : \E order \in Perms(PendingIds(todos)) : reorder_read(r, order)
    \/ \E r \in Reqs : \E id \in TodoIds : reorder_write(r, id)
    \/ \E r \in Reqs : reorder_commit(r)

SpecConc == Init /\ [][NextConc]_vars

(***************************************************************************)
(* create_todo of routers/todos.py, statement by statement, for requests   *)
(* that run at the same time: the query of lines 205-210 reads the greatest *)
(* pending rank outside any write transaction; lines 213-222 build the row  *)
(* from it, insert it and commit.                                           *)
(***************************************************************************)
create_read(r) ==
    /\ r \notin DOMAIN sess
    /\ minted + Cardinality(DOMAIN sess) < MaxTodos
    /\ sess' = Insert(sess, r, [pc |-> "insert", next_order |-> NextOrder(todos)])
    /\ UNCHANGED <<diaries, schedules, todos, minted, today, files, dirs, last>>

create_commit(r, title) ==
    /\ r \in DOMAIN sess
    /\ sess[r].pc = "insert"
    /\ todos' = Insert(todos, minted + 1,
                       [date |-> today, title |-> title, status |-> "pending",
                        order |-> sess[r].next_order])
    /\ minted' = minted + 1
    /\ sess' = Remove(sess, r)
    /\ last' = [op |-> "create_todo", status |-> 303]
    /\ UNCHANGED <<diaries, schedules, today, files, dirs>>

NextCreateConc ==
    \/ \E r \in Reqs : create_read(r)
    \/ \E r \in Reqs, title \in Titles : create_commit(r, title)
    \/ sess = EmptyTable /\ \E id \in TodoIds : mark_todo_done(id)
    \/ sess = EmptyTable /\ AdvanceDay

SpecCreateConc == Init /\ [][NextCreateConc]_vars

(***************************************************************************)
(* Properties of the todo ranks (specification SpecTodo).                  *)
(***************************************************************************)
NoDuplicatePendingRanks(t) ==
    \A i, j \in PendingIds(t) : t[i].order = t[j].order => i = j

OmitsSeveral == last'.op = "reorder_todos" /\ last'.omitted >= 2

ListedFirst(head, named, t) ==
    \A page \in PendingLists(t) :
        /\ SubSeq(page, 1, Len(head)) = head
        /\ {page[i] : i \in Len(head) + 1 .. Len(page)} = PendingIds(t) \ named

\* C5: after a reorder the pending list of the page shows the pending todos
\* the list names, in the list's order, then every pending todo the list does
\* not name.  (last.listed is the list itself, cut down to the pending ids,
\* when the list is duplicate-free; an id named twice counts where it is
\* named last.)
C5_ListedFirstThenRest ==
    last.op = "reorder_todos" => ListedFirst(last.listed, Range(last.listed), todos)

\* The reorder [3, 1] over the pending todos 1, 2 and 3 has run.
C5_Witness ==
    /\ last.op = "reorder_todos"
    /\ last.listed = <<3, 1>>
    /\ PendingIds(todos) = {1, 2, 3}
    /\ todos[3].order = 0
    /\ todos[1].order = 1
    /\ todos[2].order = SENTINEL_ORDER

(***************************************************************************)
(* Properties of the todo requests (specifications SpecTodoCrud, SpecTodo).*)
(***************************************************************************)
\* C13: no create, update, done, giveup, reorder or delete step gives a todo
\* that is done or given up the status pending, and a row that appears has an
\* id no earlier row had.
C13_NoWayBackToPending ==
    [][/\ \A i \in DOMAIN todos :
             todos[i].status \in {"done", "giveup"} =>
                 (i \in DOMAIN todos' => todos'[i].status # "pending")
       /\ \A i \in DOMAIN todos' \ DOMAIN todos : i > minted]_vars

\* A todo that is done has been edited, and a reorder has run after that.
C13_Witness ==
    /\ last.op = "reorder_todos"
    /\ \E i \in DOMAIN todos : todos[i].status = "done" /\ todos[i].title = "y"
    /\ \E i \in DOMAIN todos : todos[i].status = "giveup"
    /\ \E i \in DOMAIN todos : todos[i].status = "pending"

\* C14: a done or giveup step keeps the set of rows, changes at most one row,
\* and leaves that row's rank, date and title as they were.
C14_TransitionChangesStatusOnly ==
    [][last'.op \in {"mark_todo_done", "mark_todo_giveup"} =>
          /\ DOMAIN todos' = DOMAIN todos
          /\ \E id \in TodoIds :
                \A j \in DOMAIN todos :
                    /\ j # id => todos'[j] = todos[j]
                    /\ todos'[j].order = todos[j].order
                    /\ todos'[j].date = todos[j].date
                    /\ todos'[j].title = todos[j].title]_vars

\* A todo that a reorder had left at the sentinel rank has been marked done
\* and still has that rank, next to a pending todo.
C14_Witness ==
    /\ last.op = "mark_todo_done"
    /\ last.status = 303
    /\ ~last.again
    /\ \E i, j \in DOMAIN todos :
          /\ todos[i].status = "done" /\ todos[i].order = SENTINEL_ORDER
          /\ todos[j].status = "pending"

\* C15: a done (giveup) request for an existing todo answers 303 and leaves
\* the todo done (given up); when the todo had that status already the
\* request answers 303 all the same and the table is as it was.
C15_TransitionIdempotent ==
    [][last'.op \in {"mark_todo_done", "mark_todo_giveup"} =>
          /\ \A id \in DOMAIN todos :
                (mark_todo_done(id) => last'.status = 303 /\ todos'[id].status = "done")
                /\ (mark_todo_giveup(id) => last'.status = 303 /\ todos'[id].status = "giveup")
          /\ last'.again => (last'.status = 303 /\ todos' = todos)]_vars

\* A done request has been repeated for a todo that was done already.
C15_Witness ==
    /\ last.op = "mark_todo_done"
    /\ last.status = 303
    /\ last.again

\* C16: update, done, giveup and delete requests for an id that is not in
\* the table answer 404 and leave the table as it was; a delete request for an
\* id that is in the table answers 303 and removes that row and no other,
\* whatever the row's status.
C16_UnknownIdNotFoundDeleteExact ==
    [][/\ \A id \in TodoIds \ DOMAIN todos :
             ((\E title \in Titles : update_todo(id, title))
                 \/ mark_todo_done(id) \/ mark_todo_giveup(id) \/ delete_todo(id))
             => (last'.status = 404 /\ todos' = todos)
       /\ (last'.op \in {"update_todo", "mark_todo_done", "mark_todo_giveup", "delete_todo"}
              /\ last'.status = 404) => todos' = todos
       /\ \A id \in DOMAIN todos :
             delete_todo(id) =>
                 /\ last'.status = 303
                 /\ DOMAIN todos' = DOMAIN todos \ {id}
                 /\ \A j \in DOMAIN todos' : todos'[j] = todos[j]
       /\ (last'.op = "delete_todo" /\ last'.status = 303) =>
             Cardinality(DOMAIN todos') = Cardinality(DOMAIN todos) - 1]_vars

\* A done todo has been deleted while other todos stay in the table.
C16_Witness ==
    /\ last.op = "delete_todo"
    /\ last.status = 303
    /\ last.was = "done"
    /\ \E i, j \in DOMAIN todos : i < j /\ todos[i].status = "giveup"

\* C17: a reorder request answers 200 whatever ids its list names, keeps the
\* set of rows, keeps every row's status, title and date, and keeps every
\* field of a row that is not pending.
C17_ReorderTouchesPendingRanksOnly ==
    [][last'.op = "reorder_todos" =>
          /\ last'.status = 200
          /\ DOMAIN todos' = DOMAIN todos
          /\ \A i \in DOMAIN todos :
                /\ todos'[i].status = todos[i].status
                /\ todos'[i].title = todos[i].title
                /\ todos'[i].date = todos[i].date
                /\ todos[i].status # "pending" => todos'[i] = todos[i]]_vars

\* A reorder has put one pending todo first and another at the sentinel rank
\* while the table holds a done todo that kept the rank it was created with.
C17_Witness ==
    /\ last.op = "reorder_todos"
    /\ Len(last.listed) = 1
    /\ last.omitted = 1
    /\ \E i \in DOMAIN todos :
          /\ todos[i].status = "done"
          /\ todos[i].order \notin {0, SENTINEL_ORDER}

\* C18: a create request adds one row and changes no other; the row is
\* pending, dated today, ranked one above the greatest rank of the pending rows
\* (1 when there is none), hence above every one of them, and it is the last
\* item of every pending list the page can show.
C18_CreateAppendsToPending ==
    [][last'.op = "create_todo" =>
          \E n \in DOMAIN todos' \ DOMAIN todos :
              /\ DOMAIN todos' = DOMAIN todos \cup {n}
              /\ \A j \in DOMAIN todos : todos'[j] = todos[j]
              /\ todos'[n].status = "pending"
              /\ todos'[n].date = today
              /\ todos'[n].order =
                    IF PendingIds(todos) = {} THEN 1
                    ELSE 1 + MaxOf({todos[j].order : j \in PendingIds(todos)})
              /\ \A j \in PendingIds(todos) : todos[j].order < todos'[n].order
              /\ \A page \in PendingLists(todos') : page[Len(page)] = n]_vars

\* A todo has been created after a reorder with an empty list had put both
\* pending todos at the sentinel rank, next to a done todo of a higher rank.
C18_Witness ==
    /\ last.op = "create_todo"
    /\ \E i, k \in PendingIds(todos) :
          /\ todos[i].order = SENTINEL_ORDER
          /\ todos[k].order = SENTINEL_ORDER + 1
          /\ PendingIds(todos) = {i, k}
    /\ \E d \in DOMAIN todos : todos[d].status = "done" /\ todos[d].order = SENTINEL_ORDER

\* C19: the pending list of the page is sorted by rank, then date, then id,
\* so the store's state leaves one sequence only.  The query orders by rank
\* and date alone: two pending todos a reorder left at the sentinel rank on
\* the same day come in either order.
PendingFullKeyLeq(t, a, b) ==
    \/ t[a].order < t[b].order
    \/ t[a].order = t[b].order /\ t[a].date < t[b].date
    \/ t[a].order = t[b].order /\ t[a].date = t[b].date /\ a <= b

C19_PendingListDetermined ==
    /\ Cardinality(PendingLists(todos)) = 1
    /\ \A page \in PendingLists(todos) :
          \A i, j \in DOMAIN page : i < j => PendingFullKeyLeq(todos, page[i], page[j])

\* C20: whatever page a request asks for and however many finished todos
\* match, the number of pages is the least number of pages of 20 that hold
\* them all and at least 1, the page shown lies between 1 and that number, the
\* offset is not negative, and when nothing matches the page is empty and the
\* number of pages is 1.
CeilOf(total, size) == CHOOSE k \in 0 .. total : k * size >= total /\ (k = 0 \/ (k - 1) * size < total)

C20_HistoryPagingClamped ==
    last.op = "todo_page" =>
        /\ last.total >= 0
        /\ last.history_total_pages =
              (IF CeilOf(last.total, 20) > 1 THEN CeilOf(last.total, 20) ELSE 1)
        /\ 1 <= last.history_page
        /\ last.history_page <= last.history_total_pages
        /\ last.offset >= 0
        /\ last.offset = (last.history_page - 1) * 20
        /\ Len(last.history_items) <= 20
        /\ last.total = 0 => (last.history_items = <<>> /\ last.history_total_pages = 1)

\* 21 finished todos match and the request asks for page 3: the page shown is
\* the second and last, with the one item left for it.
C20_Witness ==
    /\ last.op = "todo_page"
    /\ last.total = 21
    /\ last.asked = 3
    /\ last.history_total_pages = 2
    /\ last.history_page = 2
    /\ last.offset = 20
    /\ Len(last.history_items) = 1

\* C27: no step takes a todo from done to giveup or from giveup to done.
\* mark_todo_giveup and mark_todo_done set the status of whatever row they
\* find: a giveup request for a done todo makes it given up.
C27_NoSwitchBetweenFinalStates ==
    [][\A i \in DOMAIN todos \cap DOMAIN todos' :
          /\ ~(todos[i].status = "done" /\ todos'[i].status = "giveup")
          /\ ~(todos[i].status = "giveup" /\ todos'[i].status = "done")]_vars

(***************************************************************************)
(* Properties of the schedule lists (specification SpecSchedule).          *)
(***************************************************************************)
Timed(id) == Strip(IF schedules[id].time_str = NoTime THEN "" ELSE schedules[id].time_str) # ""

\* The time text is two fields that int() accepts.
ParsesAsClock(id) ==
    LET f == SplitColon(Strip(schedules[id].time_str)) IN
    Len(f) = 2 /\ IntOf(f[1]) # None /\ IntOf(f[2]) # None

\* C21: among the items of one date in the dashboard's list, which is sorted
\* by schedule_sort_key, an item without time never follows a timed one, and
\* a timed item whose text does not parse never stands before a timed item
\* whose text parses.  The key of a text that does not parse is 23:59, the
\* key of the text "23:59" too and the key of "24:30" is greater: the stable
\* sort leaves the unparseable item in front when the query returned it first.
C21_UnparseableTimeLast ==
    (last.op = "dashboard" /\ last.status = 200) =>
        \A i, j \in DOMAIN last.upcoming :
            (i < j /\ schedules[last.upcoming[i]].date = schedules[last.upcoming[j]].date) =>
                /\ Timed(last.upcoming[i]) => Timed(last.upcoming[j])
                /\ ~(/\ Timed(last.upcoming[i]) /\ ~ParsesAsClock(last.upcoming[i])
                      /\ Timed(last.upcoming[j]) /\ ParsesAsClock(last.upcoming[j]))

KeyOfRow(id) == schedule_sort_key(ScheduleItem(schedules, id))

AscendingByKey(ids) ==
    \A i, j \in DOMAIN ids : i < j => ~KeyLess(KeyOfRow(ids[j]), KeyOfRow(ids[i]))

\* C22: the list of the /schedule page and the upcoming list of the dashboard
\* are both ascending in the key (date, has_time, hour, minute).  The
\* /schedule page takes the order of its query, date then title: of two items
\* of one date, "x" at 09:00 comes before "y" without time.
C22_ViewsAscendingByKey ==
    /\ (last.op = "schedule_page" /\ last.status = 200) => AscendingByKey(last.items)
    /\ (last.op = "dashboard" /\ last.status = 200) => AscendingByKey(last.upcoming)

\* C28: whatever create_schedule, update_schedule and restore_db have
\* stored, the dashboard is rendered.  date.fromisoformat in schedule_sort_key
\* raises on the empty string a restore stores for a record without date, and
\* load_schedule lets the exception through.
C28_DashboardAlwaysRendered ==
    last.op = "dashboard" => last.status = 200

(***************************************************************************)
(* Properties of the pages that read the todos (specification SpecReads).  *)
(***************************************************************************)
OutsideEnum == {i \in DOMAIN todos : todos[i].status \notin Statuses}

\* C23: a todo whose stored status is none of pending, done and giveup is in
\* the pending list of the /todos page and of the dashboard, and /stats counts
\* it as pending, so that its three counts add up to the total.  Only
\* load_todos, which the dashboard reads, replaces such a status; the /todos
\* query and the /stats counts compare the stored text with "pending".
C23_StatusClosedOnRead ==
    /\ last.op = "todo_page" => OutsideEnum \subseteq Range(last.items)
    /\ (last.op = "dashboard" /\ last.status = 200) =>
          OutsideEnum \subseteq Range(last.today_todos)
    /\ last.op = "stats_page" =>
          last.overall_pending + last.overall_done + last.overall_giveup = last.overall_total

(***************************************************************************)
(* Properties of the credential check (specification SpecAuth).            *)
(***************************************************************************)
EnvSet(r) == r.env.user # "" /\ r.env.pass # ""

CredentialsMatch(r) ==
    r.header.present /\ r.header.username = r.env.user /\ r.header.password = r.env.pass

StoreAndAssetsUnchanged ==
    /\ diaries' = diaries /\ schedules' = schedules /\ todos' = todos
    /\ files' = files /\ dirs' = dirs

ChecklistIds == ItemIds(SelectSeq(load_todos(todos), LAMBDA it : it.status = "pending"))

\* C26: the pending list of the /todos page and the checklist of the
\* dashboard are the same sequence of ids.  Stated for stores whose statuses
\* are all in the enum and whose pending ranks are all different, where each
\* page has one order only: /todos orders by rank then date, load_todos by
\* date then rank, so a reorder that puts the todo of the later day first
\* shows on /todos and not on the dashboard.
C26_SameOrderOnBothPages ==
    (OutsideEnum = {} /\ NoDuplicatePendingRanks(todos)) =>
        /\ last.op = "todo_page" => last.items = ChecklistIds
        /\ (last.op = "dashboard" /\ last.status = 200) =>
              last.today_todos \in PendingLists(todos)

(***************************************************************************)
(* Properties of restore and backup on the database side (specification    *)
(* Spec).                                                                  *)
(***************************************************************************)
TablesUnchanged == diaries' = diaries /\ schedules' = schedules /\ todos' = todos

\* The records of a collection are the rows of a table, one record a row.
OneRecordPerRow(coll, table) ==
    /\ coll.kind = "list"
    /\ Len(coll.items) = Cardinality(DOMAIN table)
    /\ \A id \in DOMAIN table :
          Cardinality({i \in DOMAIN coll.items : coll.items[i].id = id}) = 1

\* C25: the document of a backup holds one record for every row of the
\* three tables and no other, and the backup leaves the tables and the upload
\* directory as they were.
C25_BackupCompleteNoSideEffect ==
    [][last'.op = "backup_db" =>
          /\ TablesUnchanged
          /\ files' = files /\ dirs' = dirs
          /\ last'.status = 200
          /\ \A n \in DOMAIN last'.archive.members :
                LET doc == last'.archive.members[n] IN
                /\ OneRecordPerRow(doc.diaries, diaries)
                /\ OneRecordPerRow(doc.schedules, schedules)
                /\ OneRecordPerRow(doc.todos, todos)
          /\ Cardinality(DOMAIN last'.archive.members) = 1]_vars

\* A backup has been taken of a store with two diaries whose photos are in
\* the upload directory.
C25_Witness ==
    /\ last.op = "backup_db"
    /\ Cardinality(DOMAIN diaries) = 2
    /\ \E p \in DOMAIN files : UnderUploadDir(p)
    /\ last.archive.uploads # <<>>

\* C1: a restore whose database phase raises after the upload has passed
\* validation answers 500 and leaves the three tables as they were before the
\* request.
C1_DbPhaseAllOrNothing ==
    [][(last'.op = "restore_db" /\ last'.detail = "db_restore")
          => (last'.status = 500 /\ TablesUnchanged)]_vars

\* C3: a restore whose metadata member is not UTF-8 JSON, or is JSON whose
\* top-level value is no object, leaves the tables unchanged and answers 400.
C3_UnparseableIsBadRequest ==
    [][(last'.op = "restore_db" /\ last'.doc_kind \in {"garbage", "array"})
          => (last'.status = 400 /\ TablesUnchanged)]_vars

\* C7: restoring the archive a backup has just produced leaves every table
\* with the same rows under the same ids and the upload directory with the
\* same files.
C7_BackupRestoreRoundTrip ==
    [][(last'.op = "restore_db" /\ last'.fresh)
          => (TablesUnchanged /\ UploadTree(files') = UploadTree(files))]_vars

\* The date a dated name carries.
DateValue(name) == name.mid[1] * 10 + name.mid[2]

\* C8 as the document states it: the newest dated member is read even when
\* the legacy member is present, the legacy member only when there is no dated
\* one, and an archive with neither is rejected.
C8_NewestDatedPreferred ==
    (last.op = "restore_db" /\ last.zip) =>
        LET dated == {n \in last.names : IsDated(n)} IN
        IF dated # {}
        THEN last.read \in dated /\ \A m \in dated : DateValue(m) <= DateValue(last.read)
        ELSE IF LegacyName \in last.names THEN last.read = LegacyName
        ELSE last.read = NoName /\ last.status = 400

\* C8: the legacy member is read whenever it is present; otherwise, of the
\* members named steplog_backup_<anything>.json, the one whose name sorts last,
\* which is the newest date when all of them are dated; an archive with
\* neither is rejected with 400.
C8_LegacyFirstThenLastSorted ==
    (last.op = "restore_db" /\ last.zip) =>
        LET stamped == {n \in last.names : n.kind = "stamped"} IN
        IF LegacyName \in last.names THEN last.read = LegacyName
        ELSE IF stamped # {}
        THEN /\ last.read \in stamped
             /\ \A m \in stamped : ~LexLess(last.read.mid, m.mid)
             /\ (\A m \in stamped : IsDated(m))
                    => \A m \in stamped : DateValue(m) <= DateValue(last.read)
        ELSE last.read = NoName /\ last.status = 400

\* An archive with the legacy member and two dated members has been restored
\* from the legacy member.
C8_Witness ==
    /\ last.op = "restore_db"
    /\ last.status = 303
    /\ {LegacyName, Stamped(<<0, 1>>), Stamped(<<0, 2>>)} \subseteq last.names
    /\ last.read = LegacyName
    /\ DOMAIN todos = {MemberMark(LegacyName)}

\* C9: after a successful restore every todo record of the archive that
\* carries a rank has a row with the record's id and exactly that rank.
C9_RanksRestoredAsStored ==
    (last.op = "restore_db" /\ last.status = 303) =>
        \A i \in DOMAIN last.todos :
            last.todos[i].order # None =>
                /\ last.todos[i].id \in DOMAIN todos
                /\ todos[last.todos[i].id].order = last.todos[i].order

\* A restore of two todo records with the ranks 5 and 10,000,000 has
\* succeeded.
C9_Witness ==
    /\ last.op = "restore_db"
    /\ last.status = 303
    /\ {last.todos[i].order : i \in DOMAIN last.todos} = {5, SENTINEL_ORDER}
    /\ DOMAIN todos = {101, 102}

(***************************************************************************)
(* Properties of restore on the file side (specification SpecAssets).      *)
(***************************************************************************)
\* C2: an upload that is no readable ZIP archive, or a ZIP archive without a
\* member of a recognised metadata name, is answered 400 and changes neither
\* the tables nor the files and directories.
C2_RejectedUploadChangesNothing ==
    [][(last'.op = "restore_db"
          /\ (~last'.zip \/ \A n \in last'.names : n.kind = "other"))
          => (last'.status = 400 /\ TablesUnchanged /\ files' = files /\ dirs' = dirs)]_vars

\* A ZIP archive with upload members but without a metadata member has been
\* rejected while the store held rows and files.
C2_Witness ==
    /\ last.op = "restore_db"
    /\ last.status = 400
    /\ last.zip
    /\ last.names = {OtherName}
    /\ last.targets # {}
    /\ DOMAIN diaries # {}
    /\ DOMAIN files # {}

\* C10: a restore changes no file other than those its uploads/ members point
\* to, and removes no directory.
C10_AssetPhaseAdditive ==
    [][last'.op = "restore_db" =>
          /\ \A p \in DOMAIN files :
                p \notin last'.targets => (p \in DOMAIN files' /\ files'[p] = files[p])
          /\ dirs \subseteq dirs']_vars

\* A restore has written a file of the archive and a file the archive does
\* not point to is still in the upload directory.
C10_Witness ==
    /\ last.op = "restore_db"
    /\ last.status = 303
    /\ \E p, q \in DOMAIN files :
          /\ UnderUploadDir(p) /\ p \notin last.targets /\ files[p] = 1
          /\ q \in last.targets /\ files[q] = 2

\* C11: a restore writes files or creates directories only after its
\* database phase has committed the archive's rows in the same request; a
\* restore that is rejected, or whose database phase fails, leaves files and
\* directories as they were.
C11_AssetsOnlyAfterCommit ==
    [][last'.op = "restore_db" =>
          /\ (files' # files \/ dirs' # dirs) =>
                (/\ last'.detail \in {"ok", "image_restore"}
                 /\ todos' = RestoreTodos(last'.todos))
          /\ (last'.status = 400 \/ last'.detail \in {"db_restore", "unhandled"}) =>
                (files' = files /\ dirs' = dirs)]_vars

\* A restore with an upload member has failed in its database phase and the
\* member's file does not exist.
C11_Witness ==
    /\ last.op = "restore_db"
    /\ last.detail = "db_restore"
    /\ last.targets # {}
    /\ last.targets \cap DOMAIN files = {}

\* C12: a restore whose asset phase fails answers 500 with the image-restore
\* error, not 303 and not the DB-restore error, and the todos table holds the
\* archive's rows; a restore that answers 303 has written every file its
\* upload members point to.
C12_AssetFailureReportedRowsKept ==
    [][last'.op = "restore_db" =>
          /\ last'.detail = "image_restore" =>
                (/\ last'.status = 500
                 /\ todos' = RestoreTodos(last'.todos))
          /\ last'.status = 303 => last'.targets \subseteq DOMAIN files']_vars

\* A restore into a store without todos has failed in its asset phase: a file
\* it was to write is missing and the archive's todo is in the table.
C12_Witness ==
    /\ last.op = "restore_db"
    /\ last.detail = "image_restore"
    /\ last.status = 500
    /\ ~(last.targets \subseteq DOMAIN files)
    /\ DOMAIN todos = {101}

\* C30: every file the asset phase of restore_db creates or rewrites lies
\* below the upload directory, whatever follows "uploads/" in the member name.
\* A name such as uploads/../1 is joined to UPLOAD_DIR as it stands, and the
\* file is written next to the upload directory.
C30_WritesStayUnderUploadDir ==
    [][last'.op = "restore_db" =>
          \A p \in DOMAIN files' :
              (p \notin DOMAIN files \/ files'[p] # files[p]) => UnderUploadDir(p)]_vars

\* C29: whatever the interleaving of two create_todo requests, no two
\* pending todos share a rank.  When both requests read the greatest pending
\* rank before either inserts, both rows get the same rank.
C29_ConcurrentCreatesDistinctRanks == NoDuplicatePendingRanks(todos)

(***************************************************************************)
(* Concurrent reorders (specification SpecConc).                           *)
(***************************************************************************)
\* C6: when two reorder requests over the same pending set have both
\* committed, the pending ranks are those of one of the two submitted lists.
C6_OneOrderingWins ==
    (\A r \in Reqs : r \in DOMAIN sess /\ sess[r].pc = "done") =>
        \E r \in Reqs :
            \A i \in PendingIds(todos) : todos[i].order = NewOrder(sess[r].order, i)

====
